---- MODULE Spec2Model ----
(***************************************************************************)
(* A model of downloader.py (mtg-downloader): the name sanitizer, the      *)
(* unique-name allocator with its registry, the rename reconciler, the     *)
(* file writer, save_card_image and the query loop that drives them.       *)
(*                                                                         *)
(* Strings are sequences of one-character strings, so that stripping,      *)
(* substitution, filtering, suffixing and suffix parsing are computed as   *)
(* the code computes them.                                                 *)
(***************************************************************************)
EXTENDS Integers, Sequences, FiniteSets, TLC

VARIABLES
    keys,        \* get_key.keys: registry key -> occurrence count
    files,       \* the disk: path <<directory, file name>> -> content written
    entry,       \* the download function main called: set, list or query
    todo,        \* download_cards_list: entries of the list not yet queried
    saved_count, \* the saved total the download function has so far
    not_saved_count, \* the not-saved total the download function has so far
    pc,          \* position: fetch, cards, done (the query returned), exit
    page,        \* number of pages fetched by the current query
    idx,         \* number of calls of save_card_image (of get_key) in the run
    saved,       \* local `saved` of get_card_data_and_download
    not_saved,   \* local `not_saved` of get_card_data_and_download
    aborted,     \* the query ended in the `except Exception` handler
    use_set_names, \* the -s option, fixed for the run
    last,        \* the last call of save_card_image: card, outcome, events
    occ,         \* history: <<directory, sanitized name>> -> allocations so far
    planned,     \* history: paths returned by get_filename so far, with counts
    cardSaves,   \* history: card -> calls of save_card_image that returned
    nomatches,   \* history: queries of the run whose lookup returned no match
    source,      \* replay runs: the fixed list of cards the mocked source yields
    run,         \* replay runs: number of the current run (process)
    snapshots,   \* replay runs: file names on disk at the end of each run
    sanIn,       \* sanitizer runs: the input string
    sanOut       \* sanitizer runs: results of successive applications

vars == <<keys, files, entry, todo, saved_count, not_saved_count, pc, page, idx,
          saved, not_saved, aborted, use_set_names, last, occ, planned, cardSaves,
          nomatches, source, run, snapshots, sanIn, sanOut>>

progVars == <<keys, files, entry, todo, saved_count, not_saved_count, pc, page,
              idx, saved, not_saved, aborted, use_set_names, last, occ, planned,
              cardSaves, nomatches, source, run, snapshots>>

\* what a download function keeps around its queries
entryVars == <<entry, todo, saved_count, not_saved_count>>

sanVars == <<sanIn, sanOut>>

----------------------------------------------------------------------------
(* Bounds                                                                  *)

\* longest input string given to the sanitizer in the sanitizer runs
MaxSanLen == 6
\* applications of the sanitizer to its own output in the sanitizer runs
MaxApply == 2
\* cards one query hands to save_card_image
MaxCards == 3
\* cards per page of the mocked source in the replay runs
PageSize == 2
\* runs (processes) over the same output directory in the replay runs
MaxRuns == 2
\* calls of get_key in the allocator runs
MaxAllocs == 11
\* entries of the card list given to download_cards_list
MaxEntries == 2

----------------------------------------------------------------------------
(* Characters and strings                                                  *)

Digits == {"0", "1", "2", "3", "4", "5", "6", "7", "8", "9"}

LowerLetters == {"a", "b", "k", "s", "t"}

UpperLetters == {"A", "B", "K", "S", "T"}

\* str.isalnum() on the characters the model uses
IsAlnum(c) == c \in Digits \cup LowerLetters \cup UpperLetters

\* the regular expression class \w: alphanumerics and the underscore
IsWordChar(c) == IsAlnum(c) \/ c = "_"

\* the punctuation named in the character class of get_valid_filename
AcceptedPunctuation == {"-", " ", ".", ";", ",", ":", "+", "'"}

\* characters str.strip() removes at both ends
Whitespace == {" ", "\t"}

\* the face separator replaced by get_valid_filename
Separator == <<" ", "/", "/", " ">>

RECURSIVE LStrip(_)
LStrip(s) ==
    IF s # <<>> /\ Head(s) \in Whitespace THEN LStrip(Tail(s)) ELSE s

RECURSIVE RStrip(_)
RStrip(s) ==
    IF s # <<>> /\ s[Len(s)] \in Whitespace
    THEN RStrip(SubSeq(s, 1, Len(s) - 1))
    ELSE s

\* str.strip()
Strip(s) == RStrip(LStrip(s))

\* str.replace(' // ', ''): occurrences are found left to right, not overlapping
RECURSIVE RemoveSeparator(_)
RemoveSeparator(s) ==
    IF Len(s) < Len(Separator) THEN s
    ELSE IF SubSeq(s, 1, Len(Separator)) = Separator
         THEN RemoveSeparator(SubSeq(s, Len(Separator) + 1, Len(s)))
         ELSE <<Head(s)>> \o RemoveSeparator(Tail(s))

\* the characters re.sub(r'(?u)[^-\w .;,:+\']', '', ...) keeps
KeptByPattern(c) == IsWordChar(c) \/ c \in AcceptedPunctuation

get_valid_filename(name) ==
    SelectSeq(RemoveSeparator(Strip(name)), KeptByPattern)

\* str.upper() on the characters the model uses
UpperChar(c) ==
    CASE c = "a" -> "A" [] c = "b" -> "B" [] c = "k" -> "K"
      [] c = "s" -> "S" [] c = "t" -> "T" [] OTHER -> c

Upper(s) == [i \in 1..Len(s) |-> UpperChar(s[i])]

DigitChars == <<"0", "1", "2", "3", "4", "5", "6", "7", "8", "9">>

\* the decimal digits of a natural number, as format() writes them
RECURSIVE Decimal(_)
Decimal(n) ==
    IF n < 10 THEN <<DigitChars[n + 1]>>
    ELSE Decimal(n \div 10) \o <<DigitChars[(n % 10) + 1]>>

DigitValue(c) == CHOOSE d \in 0..9 : DigitChars[d + 1] = c

\* int() of a string of digits
RECURSIVE ToInt(_)
ToInt(ds) ==
    IF ds = <<>> THEN 0
    ELSE 10 * ToInt(SubSeq(ds, 1, Len(ds) - 1)) + DigitValue(ds[Len(ds)])

\* re.search(r'[0-9]{1,}$', s): the longest run of digits ending s (<<>>: no match)
RECURSIVE TrailingDigits(_)
TrailingDigits(s) ==
    IF s # <<>> /\ s[Len(s)] \in Digits
    THEN TrailingDigits(SubSeq(s, 1, Len(s) - 1)) \o <<s[Len(s)]>>
    ELSE <<>>

----------------------------------------------------------------------------
(* Maps (Python dicts, the directory tree, the histories)                  *)

EmptyMap == [x \in {} |-> 0]

\* the value at k, or 0 where the map has none
Count(m, k) == IF k \in DOMAIN m THEN m[k] ELSE 0

\* the map m with k set to v
Put(m, k, v) == [x \in DOMAIN m \cup {k} |-> IF x = k THEN v ELSE m[x]]

----------------------------------------------------------------------------
(* Sanitizer runs: get_valid_filename applied to a string, then to its own *)
(* result.                                                                 *)

SanChars == {"a", " ", "/", "?", "_", "-"}

SanInputs == UNION {[1..n -> SanChars] : n \in 0..MaxSanLen}

ProgIdle ==
    /\ keys = EmptyMap
    /\ files = EmptyMap
    /\ entry = "none"
    /\ todo = 0
    /\ saved_count = 0
    /\ not_saved_count = 0
    /\ nomatches = 0
    /\ pc = "idle"
    /\ page = 0
    /\ idx = 0
    /\ saved = 0
    /\ not_saved = 0
    /\ aborted = FALSE
    /\ use_set_names = FALSE
    /\ last = <<>>
    /\ occ = EmptyMap
    /\ planned = EmptyMap
    /\ cardSaves = EmptyMap
    /\ source = <<>>
    /\ run = 0
    /\ snapshots = <<>>

InitSan ==
    /\ sanIn \in SanInputs
    /\ sanOut = <<>>
    /\ ProgIdle

ApplySanitizer ==
    /\ Len(sanOut) < MaxApply
    /\ sanOut' = Append(sanOut,
                        get_valid_filename(IF sanOut = <<>> THEN sanIn
                                           ELSE sanOut[Len(sanOut)]))
    /\ UNCHANGED <<sanIn, progVars>>

NextSan == ApplySanitizer

SpecSan == InitSan /\ [][NextSan]_vars

\* C5: the sanitizer is idempotent: applying it to its own result changes nothing
C5_Idempotent ==
    Len(sanOut) >= 2 => sanOut[2] = sanOut[1]

\* the characters the claim accepts in a result: alphanumerics and - . ; , : + ' space
ClaimAccepted(c) == IsAlnum(c) \/ c \in AcceptedPunctuation

HasSeparator(s) ==
    \E i \in 1..Len(s) : i + 3 <= Len(s) /\ SubSeq(s, i, i + 3) = Separator

CleanInput(s) ==
    /\ \A i \in 1..Len(s) : ClaimAccepted(s[i])
    /\ Strip(s) = s
    /\ ~HasSeparator(s)

\* C6: a result holds only alphanumerics and accepted punctuation, and an input of
\* accepted characters without outer whitespace or separator is returned unchanged
C6_OnlyAccepted ==
    Len(sanOut) >= 1 =>
        /\ \A i \in 1..Len(sanOut[1]) : ClaimAccepted(sanOut[1][i])
        /\ CleanInput(sanIn) => sanOut[1] = sanIn

----------------------------------------------------------------------------
(* Cards, as the metadata source yields them                               *)

\* the sets cards belong to: the set code and the set's name
SetS == [set |-> <<"s">>, set_name |-> <<"S", "?", "a">>]

SetT == [set |-> <<"t">>, set_name |-> <<"T", "b">>]

NameA == <<"a">>

NameA2 == <<"a", "2">>

NameAq == <<"a", "?">>

NameB == <<"b">>

NameAB == <<"a", " ", "/", "/", " ", "b">>

\* a face with its own image reference, and one without
Face(name) == [name |-> name, has_image |-> TRUE]

BareFace(name) == [name |-> name, has_image |-> FALSE]

\* a card without card_faces; has_image: 'image_uris' is in the payload
Simple(s, name, has_image) ==
    [set |-> s.set, set_name |-> s.set_name, name |-> name, layout |-> "normal",
     has_image |-> has_image, card_faces |-> <<>>]

\* a card with card_faces; has_image: the card itself carries 'image_uris'
Faced(s, layout, has_image, faces) ==
    [set |-> s.set, set_name |-> s.set_name, name |-> NameAB, layout |-> layout,
     has_image |-> has_image, card_faces |-> faces]

CardPool ==
    { Simple(SetS, NameA, TRUE),
      Simple(SetS, NameA2, TRUE),
      Simple(SetS, NameAq, TRUE),
      Simple(SetT, NameA, TRUE),
      Simple(SetS, NameA, FALSE),
      Faced(SetS, "transform", FALSE, <<Face(NameA), Face(NameB)>>),
      Faced(SetS, "transform", FALSE, <<Face(NameA2), Face(NameB)>>),
      Faced(SetS, "transform", FALSE, <<Face(NameA), BareFace(NameB)>>),
      Faced(SetS, "adventure", TRUE, <<BareFace(NameA), BareFace(NameB)>>),
      Faced(SetS, "split", TRUE, <<BareFace(NameA), BareFace(NameB)>>),
      Faced(SetS, "flip", TRUE, <<BareFace(NameA), BareFace(NameB)>>),
      Faced(SetS, "reversible_card", FALSE, <<Face(NameA), Face(NameA)>>),
      Faced(SetS, "reversible_card", FALSE, <<Face(NameA2), Face(NameA2)>>) }

----------------------------------------------------------------------------
(* The functions of downloader.py. Each takes the state it reads and       *)
(* writes as a record st = [keys, files, ev, raised, payload, oserror] and *)
(* returns the state after it; ev lists the calls made, in order (for a    *)
(* rename, ok says whether a path was returned, None otherwise); raised:   *)
(* an exception is propagating; payload: the dictionary last handed to     *)
(* get_filename, as that call left it; oserror: os.rename raises OSError   *)
(* during this call of save_card_image.                                    *)

Ext == <<".", "f", "u", "l", "l", ".", "j", "p", "g">>

Event(op, dir, name, ret, ok) ==
    [op |-> op, dir |-> dir, name |-> name, ret |-> ret, ok |-> ok]

Emit(st, e) == [st EXCEPT !.ev = Append(@, e)]

\* a registry key that leaves the set out
RegistryKey_NameOnly(set_name, name) == name

\* "{set_name}/{name}".format(...)
RegistryKey(set_name, name) == set_name \o <<"/">> \o name

\* F applied to the value of v, v being evaluated once: one statement after another
Then(v, F(_)) == CHOOSE y \in {F(x) : x \in {v}} : TRUE

\* get_key numbering a duplicate with the count found, not the count stored
GetKey_StaleSuffix(st, card, set_name) ==
    LET name == get_valid_filename(card.name)
        key == set_name \o <<"/">> \o name
    IN  IF key \notin DOMAIN st.keys
        THEN [st |-> Emit([st EXCEPT !.keys = Put(@, key, 1)],
                          Event("get_key", set_name, name, name, TRUE)),
              ret |-> name]
        ELSE LET n == st.keys[key] + 1
                 ret == name \o Decimal(st.keys[key])
             IN  [st |-> Emit([st EXCEPT !.keys = Put(@, key, n)],
                              Event("get_key", set_name, name, ret, TRUE)),
                  ret |-> ret]

\* get_key that does not store the count of a duplicate
GetKey_NoStore(st, card, set_name) ==
    LET name == get_valid_filename(card.name)
        key == set_name \o <<"/">> \o name
    IN  IF key \notin DOMAIN st.keys
        THEN [st |-> Emit([st EXCEPT !.keys = Put(@, key, 1)],
                          Event("get_key", set_name, name, name, TRUE)),
              ret |-> name]
        ELSE LET ret == name \o Decimal(st.keys[key] + 1)
             IN  [st |-> Emit(st, Event("get_key", set_name, name, ret, TRUE)),
                  ret |-> ret]

\* get_key(card, set_name): [st, ret]
GetKey(st, card, set_name) ==
    LET name == get_valid_filename(card.name)
        key == RegistryKey(set_name, name)
    IN  IF key \notin DOMAIN st.keys
        THEN [st |-> Emit([st EXCEPT !.keys = Put(@, key, 1)],
                          Event("get_key", set_name, name, name, TRUE)),
              ret |-> name]
        ELSE LET n == st.keys[key] + 1
                 ret == name \o Decimal(n)
             IN  [st |-> Emit([st EXCEPT !.keys = Put(@, key, n)],
                              Event("get_key", set_name, name, ret, TRUE)),
                  ret |-> ret]

\* rename_file that removes the old file when os.rename raises OSError
RenameFile_Unlinking(st, old_name, new_name, dir_path) ==
    LET old_file == <<dir_path, old_name>>
        new_file == <<dir_path, new_name>>
    IN  IF old_file \in DOMAIN st.files
        THEN IF st.oserror
             THEN Emit([st EXCEPT !.files = [f \in DOMAIN @ \ {old_file} |-> @[f]]],
                       Event("rename", dir_path, old_name, new_name, FALSE))
             ELSE Emit([st EXCEPT !.files =
                            [f \in (DOMAIN @ \ {old_file}) \cup {new_file} |->
                                 IF f = new_file THEN @[old_file] ELSE @[f]]],
                       Event("rename", dir_path, old_name, new_name, TRUE))
        ELSE Emit(st, Event("rename", dir_path, old_name, new_name, FALSE))

\* rename_file(old_name, new_name, dir_path); dir_path is never empty here.
\* os.rename replaces a file already at the new path; when it raises OSError the
\* files are as they were and None is returned (the event's ok is FALSE).
RenameFile(st, old_name, new_name, dir_path) ==
    LET old_file == <<dir_path, old_name>>
        new_file == <<dir_path, new_name>>
    IN  IF old_file \in DOMAIN st.files
        THEN IF st.oserror
             THEN Emit(st, Event("rename", dir_path, old_name, new_name, FALSE))
             ELSE Emit([st EXCEPT !.files =
                            [f \in (DOMAIN @ \ {old_file}) \cup {new_file} |->
                                 IF f = new_file THEN @[old_file] ELSE @[f]]],
                       Event("rename", dir_path, old_name, new_name, TRUE))
        ELSE Emit(st, Event("rename", dir_path, old_name, new_name, FALSE))

\* write_file(url, file_path): creates or overwrites the file
WriteFile(st, url, file_path) ==
    Emit([st EXCEPT !.files = Put(@, file_path, url)],
         Event("write", file_path[1], file_path[2], file_path[2], TRUE))

\* the end of get_filename: the check of the number ending key, the rename, the path
Reconcile(st, key, set_name) ==
    LET digits == TrailingDigits(key)
        original == SubSeq(key, 1, Len(key) - 1)
    IN  Then(IF digits # <<>> /\ ToInt(digits) = 2
             THEN RenameFile(st, original \o Ext, original \o <<"1">> \o Ext,
                             set_name)
             ELSE st,
             LAMBDA after :
                 [st |-> Emit(after, Event("get_filename", set_name, key,
                                           key \o Ext, TRUE)),
                  path |-> <<set_name, key \o Ext>>])

\* get_filename leaving the qualified name in the dictionary
GetFilename_NoRestore(st, card, alt, set_name) ==
    LET named == IF alt # <<>> THEN [card EXCEPT !.name = @ \o alt] ELSE card
    IN  Then(GetKey(st, named, set_name),
             LAMBDA got : Reconcile([got.st EXCEPT !.payload = named], got.ret,
                                    set_name))

\* save_card_image.get_filename(card, alt): [st, path]. With alt the dictionary's
\* name is lengthened for get_key and put back after it.
GetFilename(st, card, alt, set_name) ==
    LET prev_name == card.name
        named == IF alt # <<>> THEN [card EXCEPT !.name = @ \o alt] ELSE card
        restored == IF alt # <<>> THEN [named EXCEPT !.name = prev_name] ELSE named
    IN  Then(GetKey(st, named, set_name),
             LAMBDA got : Reconcile([got.st EXCEPT !.payload = restored], got.ret,
                                    set_name))

Raise(st) == [st EXCEPT !.raised = TRUE]

\* write_file(<image reference>, get_filename(face, alt)): the reference is looked
\* up first and raises KeyError when the payload has none
WriteFace(st, has_image, url, face, alt, set_name) ==
    IF st.raised THEN st
    ELSE IF ~has_image THEN Raise(st)
    ELSE Then(GetFilename(st, face, alt, set_name),
              LAMBDA g : WriteFile(g.st, url, g.path))

\* for card_face in card['card_faces']: write_file(..., get_filename(card_face))
RECURSIVE WriteFaces(_, _, _, _, _)
WriteFaces(st, card, faces, i, set_name) ==
    IF i > Len(faces) THEN st
    ELSE Then(WriteFace(st, faces[i].has_image, <<card.name, i>>, faces[i], <<>>,
                        set_name),
              LAMBDA s : WriteFaces(s, card, faces, i + 1, set_name))

\* pixels.save(get_filename(card['card_faces'][1])): the rotation of the image read
\* back from file_0
SaveRotated(st, card, file_0, set_name) ==
    IF Len(card.card_faces) < 2 THEN Raise(st)
    ELSE Then(GetFilename(st, card.card_faces[2], <<>>, set_name),
              LAMBDA g : WriteFile(g.st, <<"rotated", st.files[file_0]>>, g.path))

\* the flip branch: the file name of face 0 is allocated before the card's image
\* reference is looked up
WriteFlip(st, card, set_name) ==
    Then(GetFilename(st, card.card_faces[1], <<>>, set_name),
         LAMBDA g :
             IF ~card.has_image THEN Raise(g.st)
             ELSE Then(WriteFile(g.st, <<card.name, 0>>, g.path),
                       LAMBDA w : SaveRotated(w, card, g.path, set_name)))

\* the reversible_card branch: face 0, then face 1 under its name plus "-bk"
WriteReversible(st, card, set_name) ==
    LET faces == card.card_faces
    IN  Then(WriteFace(st, faces[1].has_image, <<card.name, 1>>, faces[1], <<>>,
                       set_name),
             LAMBDA s :
                 IF s.raised THEN s
                 ELSE IF Len(faces) < 2 THEN Raise(s)
                 ELSE WriteFace(s, faces[2].has_image, <<card.name, 2>>, faces[2],
                                <<"-", "b", "k">>, set_name))

\* the split branch: face 0 under its name plus the name of face 1
WriteSplit(st, card, set_name) ==
    LET faces == card.card_faces
    IN  IF ~card.has_image \/ Len(faces) < 2 THEN Raise(st)
        ELSE WriteFace(st, TRUE, <<card.name, 0>>, faces[1], faces[2].name,
                       set_name)

SetName(card, usn) ==
    IF usn THEN get_valid_filename(card.set_name)
    ELSE get_valid_filename(Upper(card.set))

\* what save_card_image returns after a branch that saves: (1, 0)
Saved(st) ==
    [st |-> st, saved_count |-> IF st.raised THEN 0 ELSE 1, not_saved_count |-> 0]

\* save_card_image(output_dir, card, use_set_names):
\* [st, saved_count, not_saved_count]; with st.raised nothing is returned
SaveCardImage(st, card, usn) ==
    LET set_name == SetName(card, usn)
        faces == card.card_faces
    IN  IF Len(faces) > 0
        THEN Then(CASE card.layout = "adventure" ->
                         WriteFace(st, card.has_image, <<card.name, 0>>, faces[1],
                                   <<>>, set_name)
                    [] card.layout = "split" -> WriteSplit(st, card, set_name)
                    [] card.layout = "flip" -> WriteFlip(st, card, set_name)
                    [] card.layout = "reversible_card" ->
                         WriteReversible(st, card, set_name)
                    [] OTHER -> WriteFaces(st, card, faces, 1, set_name),
                  LAMBDA s : Saved(s))
        ELSE IF card.has_image
        THEN Then(WriteFace(st, TRUE, <<card.name, 0>>, card, <<>>, set_name),
                  LAMBDA s : Saved(s))
        ELSE [st |-> st, saved_count |-> 0, not_saved_count |-> 1]

----------------------------------------------------------------------------
(* Histories kept beside the program state                                 *)

\* what a history counts: allocations by <<directory, sanitized name>>, planned
\* files by <<directory, file name>>
Counted(e) == IF e.op = "get_key" THEN <<e.dir, e.name>> ELSE <<e.dir, e.ret>>

\* m with one more count for every event of ev with operation op
RECURSIVE Tally(_, _, _, _)
Tally(m, ev, i, op) ==
    IF i > Len(ev) THEN m
    ELSE Tally(IF ev[i].op = op
               THEN Put(m, Counted(ev[i]), Count(m, Counted(ev[i])) + 1)
               ELSE m,
               ev, i + 1, op)

Clean ==
    [keys |-> keys, files |-> files, ev |-> <<>>, raised |-> FALSE,
     payload |-> <<>>, oserror |-> FALSE]

----------------------------------------------------------------------------
(* get_card_data_and_download: the query loop                              *)

ProgStart ==
    /\ keys = EmptyMap
    /\ files = EmptyMap
    /\ saved_count = 0
    /\ not_saved_count = 0
    /\ nomatches = 0
    /\ pc = "fetch"
    /\ page = 0
    /\ idx = 0
    /\ saved = 0
    /\ not_saved = 0
    /\ aborted = FALSE
    /\ use_set_names \in BOOLEAN
    /\ last = <<>>
    /\ occ = EmptyMap
    /\ planned = EmptyMap
    /\ cardSaves = EmptyMap
    /\ run = 1
    /\ snapshots = <<>>
    /\ sanIn = <<>>
    /\ sanOut = <<>>

\* the replies to `Is this correct?` that stop the query
Refusals == {"n", "N", "no", "NO"}

\* one pass of the head of `while uri:`: the request, the checks of its response and,
\* with confirm (the direct query), the question asked before the first card
Fetch(status, total_cards, reply) ==
    /\ pc = "fetch"
    /\ IF status = 404
       THEN /\ pc' = "done"
            /\ nomatches' = IF page = 0 THEN nomatches + 1 ELSE nomatches
            /\ UNCHANGED <<page, aborted, not_saved>>
       ELSE IF status # 200
       THEN /\ pc' = "done"
            /\ aborted' = TRUE
            /\ UNCHANGED <<page, not_saved, nomatches>>
       ELSE IF total_cards = 0
       THEN /\ pc' = "done"
            /\ nomatches' = nomatches + 1
            /\ UNCHANGED <<page, aborted, not_saved>>
       ELSE IF entry = "query" /\ saved + not_saved = 0 /\ reply \in Refusals
       THEN /\ pc' = "done"
            /\ not_saved' = not_saved + total_cards
            /\ page' = page + 1
            /\ UNCHANGED <<aborted, nomatches>>
       ELSE /\ pc' = "cards"
            /\ page' = page + 1
            /\ UNCHANGED <<aborted, not_saved, nomatches>>
    /\ UNCHANGED <<keys, files, entryVars, idx, saved, use_set_names, last, occ,
                   planned, cardSaves, source, run, snapshots, sanVars>>

\* one pass of `for card in res["data"]:`; more says what follows the card: another
\* card of the page ("cards"), the next page ("fetch") or the end of the results;
\* fault: os.rename raises OSError during the call
Save(card, more, fault) ==
    /\ pc = "cards"
    /\ \E r \in {SaveCardImage([Clean EXCEPT !.oserror = fault], card,
                               use_set_names)} :
           /\ keys' = r.st.keys
           /\ files' = r.st.files
           /\ last' = [card |-> card, raised |-> r.st.raised,
                       saved_count |-> r.saved_count,
                       not_saved_count |-> r.not_saved_count, ev |-> r.st.ev,
                       payload |-> r.st.payload, before |-> DOMAIN files]
           /\ occ' = Tally(occ, r.st.ev, 1, "get_key")
           /\ planned' = Tally(planned, r.st.ev, 1, "get_filename")
           /\ IF r.st.raised
              THEN /\ aborted' = TRUE
                   /\ pc' = "done"
                   /\ UNCHANGED <<saved, not_saved, cardSaves>>
              ELSE /\ saved' = IF r.saved_count > 0 THEN saved + r.saved_count
                               ELSE saved
                   /\ not_saved' = IF r.not_saved_count > 0
                                   THEN not_saved + r.not_saved_count
                                   ELSE not_saved
                   /\ cardSaves' = Put(cardSaves, card, Count(cardSaves, card) + 1)
                   /\ pc' = more
                   /\ UNCHANGED aborted
    /\ idx' = idx + 1
    /\ UNCHANGED <<entryVars, page, nomatches, use_set_names, source, run,
                   snapshots, sanVars>>

\* what the query's caller leaves alone
atReturn == <<keys, files, entry, idx, use_set_names, last, occ, planned, cardSaves,
              nomatches, source, run, snapshots, sanVars>>

\* download_set: return get_card_data_and_download(output_dir, f'set:{set_code}', ...)
DownloadSet ==
    /\ entry = "set"
    /\ pc = "done"
    /\ saved_count' = saved
    /\ not_saved_count' = not_saved
    /\ pc' = "exit"
    /\ UNCHANGED <<todo, page, saved, not_saved, aborted>>
    /\ UNCHANGED atReturn

\* main, option 3: (saved, not_saved) = get_card_data_and_download(..., True, ...);
\* with (0, 0) it prints "No cards found"
DirectQuery ==
    /\ entry = "query"
    /\ pc = "done"
    /\ saved_count' = saved
    /\ not_saved_count' = not_saved
    /\ pc' = "exit"
    /\ UNCHANGED <<todo, page, saved, not_saved, aborted>>
    /\ UNCHANGED atReturn

\* download_cards_list adding the query's count and nothing else
NotSavedOfEntry_Bare(query_saved, query_not_saved) == query_not_saved

\* what download_cards_list adds to not_saved_count for one entry: the query's
\* count, and one more when the query saved nothing and failed nothing
NotSavedOfEntry(query_saved, query_not_saved) ==
    IF query_saved = 0 /\ query_not_saved = 0 THEN query_not_saved + 1
    ELSE query_not_saved

\* download_cards_list: the end of one pass of `for entry in card_list:`, then the
\* next entry's query or the return
DownloadCardsList ==
    /\ entry = "list"
    /\ pc = "done"
    /\ saved_count' = saved_count + saved
    /\ not_saved_count' = not_saved_count + NotSavedOfEntry(saved, not_saved)
    /\ todo' = todo - 1
    /\ IF todo > 1
       THEN /\ pc' = "fetch"
            /\ page' = 0
            /\ saved' = 0
            /\ not_saved' = 0
            /\ aborted' = FALSE
       ELSE /\ pc' = "exit"
            /\ UNCHANGED <<page, saved, not_saved, aborted>>
    /\ UNCHANGED atReturn

Statuses == {200, 404, 500}

\* one query made by download_set
Init ==
    /\ ProgStart
    /\ entry = "set"
    /\ todo = 1
    /\ source = <<>>

\* the source answers the request: a status and, with 200, the query's total_cards;
\* the user answers the question, when it is asked
FetchPage ==
    \E status \in Statuses, total_cards \in 0..MaxCards, reply \in {"y", "n"} :
        /\ total_cards = 0 => page = 0
        /\ status = 200 /\ total_cards > 0 => idx < MaxCards
        /\ Fetch(status, total_cards, reply)

\* the source yields any card, and the page and the results end anywhere
ProcessCard ==
    \E card \in CardPool, more \in {"cards", "fetch", "done"} :
        /\ idx < MaxCards
        /\ idx + 1 = MaxCards => more = "done"
        /\ Save(card, more, FALSE)

Next == FetchPage \/ ProcessCard \/ DownloadSet

Spec == Init /\ [][Next]_vars

\* the same runs on a file system whose os.rename may raise OSError
ProcessCardFaulty ==
    \E card \in CardPool, more \in {"cards", "fetch", "done"}, fault \in BOOLEAN :
        /\ idx < MaxCards
        /\ idx + 1 = MaxCards => more = "done"
        /\ Save(card, more, fault)

NextFault == FetchPage \/ ProcessCardFaulty \/ DownloadSet

SpecFault == Init /\ [][NextFault]_vars

----------------------------------------------------------------------------
(* The three downloads of main: a set, a card list, a direct query. The    *)
(* cards are one that is saved, one without an image and one whose save    *)
(* raises.                                                                 *)

Entries == {"set", "list", "query"}

MainPool ==
    { Simple(SetS, NameA, TRUE),
      Simple(SetS, NameA, FALSE),
      Faced(SetS, "transform", FALSE, <<Face(NameA), BareFace(NameB)>>) }

InitMain ==
    /\ ProgStart
    /\ entry \in Entries
    /\ todo \in 1..MaxEntries
    /\ entry # "list" => todo = 1
    /\ source = <<>>

ProcessCardMain ==
    \E card \in MainPool, more \in {"cards", "fetch", "done"} :
        /\ idx < MaxCards
        /\ idx + 1 = MaxCards => more = "done"
        /\ Save(card, more, FALSE)

NextMain ==
    FetchPage \/ ProcessCardMain \/ DownloadSet \/ DirectQuery \/ DownloadCardsList

SpecMain == InitMain /\ [][NextMain]_vars

----------------------------------------------------------------------------
(* Replay runs: the same fixed results, served in pages of PageSize, are    *)
(* downloaded by one process after another into the same output directory. *)

Sources == UNION {[1..n -> CardPool] : n \in 0..MaxCards}

InitReplay ==
    /\ ProgStart
    /\ entry = "set"
    /\ todo = 1
    /\ source \in Sources

ReplayFetch == Fetch(200, Len(source), "y")

ReplayCard ==
    /\ idx < Len(source)
    /\ Save(source[idx + 1],
            IF idx + 1 = Len(source) THEN "done"
            ELSE IF (idx + 1) % PageSize = 0 THEN "fetch" ELSE "cards",
            FALSE)

\* the process ends and the program is started again: get_key.keys = dict()
NewRun ==
    /\ pc = "done"
    /\ run < MaxRuns
    /\ snapshots' = Append(snapshots, DOMAIN files)
    /\ run' = run + 1
    /\ keys' = EmptyMap
    /\ pc' = "fetch"
    /\ page' = 0
    /\ idx' = 0
    /\ saved' = 0
    /\ not_saved' = 0
    /\ aborted' = FALSE
    /\ last' = <<>>
    /\ occ' = EmptyMap
    /\ planned' = EmptyMap
    /\ cardSaves' = EmptyMap
    /\ nomatches' = 0
    /\ UNCHANGED <<files, entryVars, use_set_names, source, sanVars>>

NextReplay == ReplayFetch \/ ReplayCard \/ NewRun

SpecReplay == InitReplay /\ [][NextReplay]_vars

----------------------------------------------------------------------------
(* Allocator runs: get_key called on its own, on any card and set name     *)

AllocCards == {Simple(s, n, TRUE) : s \in {SetS, SetT}, n \in {NameA, NameAq, NameA2}}

InitGetKey ==
    /\ ProgIdle
    /\ sanIn = <<>>
    /\ sanOut = <<>>

Allocate ==
    \E card \in AllocCards :
        /\ idx < MaxAllocs
        /\ \E set_name \in {SetName(card, use_set_names)} :
           \E r \in {GetKey(Clean, card, set_name)} :
           \E key \in {<<set_name, get_valid_filename(card.name)>>} :
               /\ keys' = r.st.keys
               /\ files' = r.st.files
               /\ last' = [card |-> card, set_name |-> set_name, ret |-> r.ret]
               /\ occ' = Put(occ, key, Count(occ, key) + 1)
        /\ idx' = idx + 1
        /\ UNCHANGED <<entryVars, pc, page, saved, not_saved, aborted, use_set_names,
                       planned, cardSaves, nomatches, source, run, snapshots,
                       sanVars>>

NextGetKey == Allocate

SpecGetKey == InitGetKey /\ [][NextGetKey]_vars

----------------------------------------------------------------------------
(* Properties                                                              *)

\* a call of save_card_image (or, in the allocator runs, of get_key) has been made
Called == idx > 0

\* the events of the call a step makes
StepEvents == IF idx' = idx + 1 THEN last'.ev ELSE <<>>

\* the number of events of ev, among those at positions from..to, that allocate key
AllocsIn(ev, from, to, key) ==
    Cardinality({i \in from..to : i <= Len(ev) /\ ev[i].op = "get_key"
                                  /\ <<ev[i].dir, ev[i].name>> = key})

\* which occurrence of its key the allocation at position i of the last call is
Occurrence(ev, i) ==
    occ[<<ev[i].dir, ev[i].name>>]
        - AllocsIn(ev, i + 1, Len(ev), <<ev[i].dir, ev[i].name>>)

\* the part of a registry key before its first "/": the set
KeyDir(k) ==
    IF \E i \in 1..Len(k) : k[i] = "/"
    THEN SubSeq(k, 1, (CHOOSE i \in 1..Len(k) :
                          k[i] = "/" /\ \A j \in 1..(i - 1) : k[j] # "/") - 1)
    ELSE <<>>

IsDecimalOf(suffix, k) ==
    /\ suffix # <<>>
    /\ \A i \in 1..Len(suffix) : suffix[i] \in Digits
    /\ suffix[1] # "0"
    /\ ToInt(suffix) = k

\* C1: the k-th allocation of a (set, sanitized name) key returns the name when
\* k = 1 and the name followed by the decimal digits of k when k >= 2, whatever
\* other keys were allocated in between
C1_KthAllocation ==
    Called =>
        LET name == get_valid_filename(last.card.name)
            k == occ[<<last.set_name, name>>]
            ret == last.ret
        IN  IF k = 1 THEN ret = name
            ELSE /\ Len(ret) > Len(name)
                 /\ SubSeq(ret, 1, Len(name)) = name
                 /\ IsDecimalOf(SubSeq(ret, Len(name) + 1, Len(ret)), k)

\* the tenth allocation of a key, another key having been allocated too
C1_Witness ==
    /\ Called
    /\ last.ret = <<"a", "1", "0">>
    /\ occ[<<last.set_name, <<"a">>>>] = 10
    /\ Cardinality(DOMAIN occ) >= 2

\* C2: the rename reconciler is invoked for a key exactly when the key's count
\* becomes 2, never at occurrence 1 nor at occurrence 3 or later, and it is asked to
\* rename name.full.jpg to name1.full.jpg in the set directory, before the file
\* name2.full.jpg is written
C2_RenameExactlyAtSecond ==
    Called =>
        \A i \in 1..Len(last.ev) :
            last.ev[i].op = "get_key" =>
                LET e == last.ev[i]
                    renamed == i < Len(last.ev) /\ last.ev[i + 1].op = "rename"
                IN  /\ renamed <=> Occurrence(last.ev, i) = 2
                    /\ renamed =>
                          /\ last.ev[i + 1].dir = e.dir
                          /\ last.ev[i + 1].name = e.name \o Ext
                          /\ last.ev[i + 1].ret = e.name \o <<"1">> \o Ext
                          /\ \E j \in (i + 2)..Len(last.ev) :
                                /\ last.ev[j].op = "write"
                                /\ last.ev[j].dir = e.dir
                                /\ last.ev[j].ret = e.name \o <<"2">> \o Ext

\* C3: no two planned files of one set directory are assigned the same file name
C3_DistinctNames ==
    \A p \in DOMAIN planned : planned[p] <= 1

\* C4: a save into set A leaves the counts of every other set's keys and the files
\* of every other set's directory as they were, and the first occurrence of a name
\* in a set is allocated unsuffixed whatever was saved into other sets
C4_SetsIndependent ==
    [][idx' = idx + 1 =>
          LET A == SetName(last'.card, use_set_names)
          IN  /\ \A k \in DOMAIN keys \cup DOMAIN keys' :
                    KeyDir(k) # A =>
                        k \in DOMAIN keys /\ k \in DOMAIN keys' /\ keys'[k] = keys[k]
              /\ \A f \in DOMAIN files \cup DOMAIN files' :
                    f[1] # A =>
                        f \in DOMAIN files /\ f \in DOMAIN files'
                        /\ files'[f] = files[f]
              /\ \A i \in 1..Len(last'.ev) :
                    last'.ev[i].op = "get_key" =>
                        /\ last'.ev[i].dir = A
                        /\ occ'[<<A, last'.ev[i].name>>] = 1 =>
                               last'.ev[i].ret = last'.ev[i].name]_vars

\* the same name saved once into each of two sets: both files are there, unsuffixed
C4_Witness ==
    /\ Called
    /\ \E A \in DOMAIN files, B \in DOMAIN files :
          /\ A[1] # B[1]
          /\ A[2] = <<"a">> \o Ext
          /\ B[2] = <<"a">> \o Ext
          /\ occ[<<A[1], <<"a">>>>] = 1
          /\ occ[<<B[1], <<"a">>>>] = 1
          /\ SetName(last.card, use_set_names) = B[1]

\* the required image references of a card, by layout
MissingRequiredImage(card) ==
    IF Len(card.card_faces) = 0 THEN ~card.has_image
    ELSE IF card.layout \in {"adventure", "split", "flip"} THEN ~card.has_image
    ELSE IF card.layout = "reversible_card"
    THEN \E i \in 1..Len(card.card_faces) : i <= 2 /\ ~card.card_faces[i].has_image
    ELSE \E i \in 1..Len(card.card_faces) : ~card.card_faces[i].has_image

\* C7: a card lacking the image reference of a required face ends as not saved
\* (saved 0, not saved 1) without an exception, and the query goes on
C7_MissingImageNotSaved ==
    Called /\ MissingRequiredImage(last.card) =>
        /\ ~last.raised
        /\ ~aborted
        /\ last.saved_count = 0
        /\ last.not_saved_count = 1

\* C8: a run over the same results, with the registry empty again, ends with the
\* same files in every set directory as the run before it
C8_SameFilesEveryRun ==
    pc = "done" /\ run >= 2 => DOMAIN files = snapshots[run - 1]

\* C9: the registry starts empty; a step raises each key's count by the number of
\* allocations of that key the step makes and changes nothing else in the registry:
\* counts are at least 1, never lowered, and no key is removed
C9_RegistryCountsAllocations ==
    /\ keys = EmptyMap
    /\ [][/\ DOMAIN keys \subseteq DOMAIN keys'
          /\ \A k \in DOMAIN keys' :
                /\ keys'[k] >= 1
                /\ keys'[k] = Count(keys, k)
                     + Cardinality({i \in 1..Len(StepEvents) :
                           /\ StepEvents[i].op = "get_key"
                           /\ RegistryKey(StepEvents[i].dir, StepEvents[i].name) = k})
          /\ \A i \in 1..Len(StepEvents) :
                StepEvents[i].op = "get_key" =>
                    RegistryKey(StepEvents[i].dir, StepEvents[i].name)
                        \in DOMAIN keys']_vars

\* a key allocated three times, its first file renamed on the way
C9_Witness ==
    /\ Called
    /\ \E k \in DOMAIN keys : keys[k] = 3
    /\ \E f \in DOMAIN files : f[2] = <<"a", "1">> \o Ext

\* C10: after the same two-faced transform card was saved twice into a set, each
\* face has the files face1.full.jpg and face2.full.jpg
C10_TransformTwice ==
    \A c \in DOMAIN cardSaves :
        ( /\ c.layout = "transform"
          /\ Len(c.card_faces) = 2
          /\ cardSaves[c] >= 2 ) =>
            \A i \in 1..2 :
                LET name == get_valid_filename(c.card_faces[i].name)
                    dir == SetName(c, use_set_names)
                IN  /\ <<dir, name \o <<"1">> \o Ext>> \in DOMAIN files
                    /\ <<dir, name \o <<"2">> \o Ext>> \in DOMAIN files

\* the calls of one operation among the events of the last call of save_card_image
LastCalls(op) == SelectSeq(last.ev, LAMBDA e : e.op = op)

\* the last call of save_card_image was for a card of this layout and returned
Returned(layout) == Called /\ last.card.layout = layout /\ ~last.raised

BackQualifier == <<"-", "b", "k">>

\* C11: a reversible card plans two files, face 0 under its own name and face 1 under
\* its name followed by "-bk"; when both faces have the same name and neither name
\* has been allocated before, the two files are name and name-bk, without a number
\* and without any file being renamed
C11_ReversiblePlansNameAndBack ==
    Returned("reversible_card") =>
        LET faces == last.card.card_faces
            dir == SetName(last.card, use_set_names)
            front == get_valid_filename(faces[1].name)
            back == get_valid_filename(faces[2].name \o BackQualifier)
        IN  /\ Len(LastCalls("get_key")) = 2
            /\ Len(LastCalls("get_filename")) = 2
            /\ LastCalls("get_key")[1].name = front
            /\ LastCalls("get_key")[2].name = back
            /\ ( /\ faces[1].name = faces[2].name
                 /\ occ[<<dir, front>>] = 1
                 /\ occ[<<dir, back>>] = 1 )
               => /\ LastCalls("get_filename")[1].ret = front \o Ext
                  /\ LastCalls("get_filename")[2].ret = back \o Ext
                  /\ <<dir, front \o Ext>> \in DOMAIN files
                  /\ <<dir, back \o Ext>> \in DOMAIN files
                  /\ \A i \in 1..Len(last.ev) :
                         last.ev[i].op = "rename" => ~last.ev[i].ok

\* name is base, or base followed by a decimal number, followed by the extension
NamedAfter(name, base) ==
    /\ Len(name) >= Len(base) + Len(Ext)
    /\ SubSeq(name, 1, Len(base)) = base
    /\ SubSeq(name, Len(name) - Len(Ext) + 1, Len(name)) = Ext
    /\ \A i \in (Len(base) + 1)..(Len(name) - Len(Ext)) : name[i] \in Digits

\* the one name an adventure or split card is filed under
HalvesBase(card) ==
    IF card.layout = "split"
    THEN get_valid_filename(card.card_faces[1].name \o card.card_faces[2].name)
    ELSE get_valid_filename(card.card_faces[1].name)

\* C12: a call of save_card_image for an adventure or split card that returns has
\* planned one file and written that file; the file is named after face 0 (adventure)
\* or after the name of face 0 followed by the name of face 1 (split); the call
\* allocates under no other registry key, so none for the name of face 1 alone, and
\* writes no file under that name; the dictionary of face 0 is after the call what
\* it was before it
C12_OneFileForTwoHalves ==
    [][ ( /\ idx' = idx + 1
          /\ last'.card.layout \in {"adventure", "split"}
          /\ ~last'.raised )
        => LET card == last'.card
               dir == SetName(card, use_set_names)
               base == HalvesBase(card)
               alone == get_valid_filename(card.card_faces[2].name)
               allocs == SelectSeq(last'.ev, LAMBDA e : e.op = "get_key")
               plans == SelectSeq(last'.ev, LAMBDA e : e.op = "get_filename")
               writes == SelectSeq(last'.ev, LAMBDA e : e.op = "write")
           IN  /\ Len(allocs) = 1
               /\ Len(plans) = 1
               /\ Len(writes) = 1
               /\ allocs[1].name = base
               /\ NamedAfter(plans[1].ret, base)
               /\ writes[1].name = plans[1].ret
               /\ <<dir, plans[1].ret>> \in DOMAIN files'
               /\ \A k \in DOMAIN keys' :
                      k # RegistryKey(dir, base)
                          => k \in DOMAIN keys /\ keys'[k] = keys[k]
               /\ alone # base => ~NamedAfter(writes[1].name, alone)
               /\ last'.payload = card.card_faces[1]
      ]_vars

\* a split card saved after an adventure card: one file written, named after both
\* faces, the dictionary of face 0 under its own name again
C12_Witness ==
    /\ Returned("split")
    /\ Len(LastCalls("write")) = 1
    /\ LastCalls("get_key")[1].name = NameA \o NameB
    /\ last.payload.name = NameA
    /\ \E c \in DOMAIN cardSaves : c.layout = "adventure"

\* the query has returned and its first request found nothing: a 404, or no cards
NoMatch == pc = "done" /\ page = 0 /\ ~aborted

\* C13 as stated: whatever the download, every query whose lookup returns no match
\* (a 404, or a result with zero cards) adds at least one to the not-saved total
\* returned to the caller
C13_NoMatchCountedEverywhere == pc = "exit" => not_saved_count >= nomatches

\* C13, amended: a query whose lookup returns no match ends without an error; the
\* card-list download adds one to its not-saved total, nothing to its saved total,
\* and goes on with the next entry; a set download and a direct query return (0, 0)
C13_NoMatchCountedByList ==
    [][ (NoMatch /\ pc' # pc)
        => IF entry = "list"
           THEN /\ not_saved_count' = not_saved_count + 1
                /\ saved_count' = saved_count
                /\ pc' = IF todo > 1 THEN "fetch" ELSE "exit"
           ELSE /\ not_saved_count' = 0
                /\ saved_count' = 0
                /\ pc' = "exit"
      ]_vars

\* a card list whose first entry matched nothing: it has been counted once and the
\* query of the next entry is yielding cards
C13_Witness ==
    /\ entry = "list"
    /\ nomatches = 1
    /\ not_saved_count = 1
    /\ saved_count = 0
    /\ todo = 1
    /\ pc = "cards"

\* the positions, among the events ev, of the calls of rename_file that returned
\* a path (ok) or None (~ok)
Renames(ev, ok) == {i \in 1..Len(ev) : ev[i].op = "rename" /\ ev[i].ok = ok}

\* the paths written by the events ev
Written(ev) == {<<ev[i].dir, ev[i].name>> : i \in {j \in 1..Len(ev) : ev[j].op = "write"}}

\* C14: a call of rename_file that finds no old file, or whose os.rename raises
\* OSError, returns None; it is not made again, get_filename goes on to return its
\* path and the caller writes the newly allocated file; when every rename of a call
\* of save_card_image fails, the files are those of before with the written ones
\* added, the old file still where it was, and the registry has moved only by the
\* allocations of the call
C14_RenameBestEffort ==
    [][ (idx' = idx + 1 /\ Renames(last'.ev, FALSE) # {})
        => LET ev == last'.ev
           IN  /\ \A i \in Renames(ev, FALSE) :
                      /\ i + 2 <= Len(ev)
                      /\ ev[i + 1].op = "get_filename"
                      /\ ev[i + 2].op = "write"
                      /\ ev[i + 2].name = ev[i + 1].ret
                      /\ <<ev[i].dir, ev[i + 1].ret>> \in DOMAIN files'
                      /\ <<ev[i].dir, ev[i].name>> \in DOMAIN files
                             => <<ev[i].dir, ev[i].name>> \in DOMAIN files'
               /\ Renames(ev, TRUE) = {}
                      => /\ DOMAIN files' = DOMAIN files \cup Written(ev)
                         /\ \A f \in DOMAIN files \ Written(ev) : files'[f] = files[f]
               /\ \A k \in DOMAIN keys \cup DOMAIN keys' :
                      Count(keys', k) = Count(keys, k)
                          + Cardinality({i \in 1..Len(ev) :
                                 /\ ev[i].op = "get_key"
                                 /\ RegistryKey(ev[i].dir, ev[i].name) = k})
      ]_vars

\* the old file was there and os.rename raised OSError: the old file is still
\* there, nothing is at the new path and the newly allocated file has been written
C14_Witness ==
    /\ Called
    /\ ~last.raised
    /\ \E i \in Renames(last.ev, FALSE) :
           /\ <<last.ev[i].dir, last.ev[i].name>> \in last.before
           /\ <<last.ev[i].dir, last.ev[i].name>> \in DOMAIN files
           /\ <<last.ev[i].dir, last.ev[i].ret>> \notin DOMAIN files
           /\ <<last.ev[i].dir, last.ev[i + 1].ret>> \in DOMAIN files \ last.before

\* every call of save_card_image so far saved a card that has one file, and all
\* went to one set directory
OnlySingleFileSaves ==
    /\ saved = idx
    /\ \A c \in DOMAIN cardSaves : c.card_faces = <<>> /\ c.has_image
    /\ \A c, d \in DOMAIN cardSaves :
           SetName(c, use_set_names) = SetName(d, use_set_names)

\* C15: in a run that starts with an empty directory, a rename that succeeds has for
\* target a path where no file was, neither before the call nor written by it, and
\* moves the file of the key whose allocation asked for it, not the file of another
\* (set, name) key; and after n saves of single-file cards into one set the
\* directory holds n files
C15_NoImageLost ==
    Called =>
        /\ \A i \in Renames(last.ev, TRUE) :
               /\ <<last.ev[i].dir, last.ev[i].ret>> \notin last.before
               /\ <<last.ev[i].dir, last.ev[i].ret>>
                      \notin Written(SubSeq(last.ev, 1, i - 1))
               /\ i > 1
               /\ last.ev[i - 1].op = "get_key"
               /\ last.ev[i].name = last.ev[i - 1].name \o Ext
        /\ OnlySingleFileSaves => Cardinality(DOMAIN files) = idx

\* C16: a call of save_card_image that returns reports (1, 0) or (0, 1); the cards
\* are handed to it one at a time in the order the source yields them; and when a
\* query without confirmation and without transport error has returned, saved plus
\* not_saved is the number of cards the source yields over all its pages
C16_OneOutcomeEveryCard ==
    /\ (Called /\ ~last.raised)
           => <<last.saved_count, last.not_saved_count>> \in {<<1, 0>>, <<0, 1>>}
    /\ Called => last.card = source[idx]
    /\ pc = "done" => saved + not_saved = Len(source)

====
